---- MODULE Spec2Model ----
(***************************************************************************)
(* The cluster lifecycle orchestrator of lib/orchpy/orchpy/services.py:    *)
(* the three port counters, the process launchers, start_cluster,          *)
(* start_node and cleanup, as one sequential thread of control whose       *)
(* position is pc.  External collaborators (subprocess.Popen, Popen.poll,  *)
(* Popen.kill, Popen.terminate, orchpy.connect, orchpy.disconnect,         *)
(* time.sleep, print) appear as the events appended to trace.              *)
(***************************************************************************)
EXTENDS Integers, Sequences, FiniteSets, TLC

VARIABLES
  all_processes,          \* services.py:11  list of (p, address)
  drivers,                \* services.py:12  list of driver workers
  scheduler_port_counter, \* services.py:20
  worker_port_counter,    \* services.py:26
  objstore_port_counter,  \* services.py:32
  pc,                     \* position of the orchestrator thread
  frame,                  \* arguments and locals of the running (or last) call
  result,                 \* how the last call ended
  trace,                  \* external calls made by the running (or last) call;
                          \* inside cleanup's process loop: those made for the
                          \* record being handled
  pre,                    \* module globals as they were when the call began
  next_pid,               \* pid the OS gives the next spawned process
  next_driver,            \* identity of the next worker.Worker() object
  issued,                 \* ports returned by each new_*_port so far
  k,                      \* cleanup: index of the record being handled
  alive,                  \* cleanup: is the handled record's process running
  left_running,           \* cleanup: a record was left behind still running
  connected               \* drivers orchpy.connect was called for and
                          \* orchpy.disconnect has not been called for since

vars == <<all_processes, drivers, scheduler_port_counter, worker_port_counter,
          objstore_port_counter, pc, frame, result, trace, pre, next_pid,
          next_driver, issued, k, alive, left_running, connected>>

globals == <<all_processes, drivers, scheduler_port_counter,
             worker_port_counter, objstore_port_counter>>

----------------------------------------------------------------------------
(* Bounds of the model. *)

\* largest num_objstores a caller passes
MaxObjstores == 2
\* largest num_workers_per_objstore / num_workers a caller passes
MaxWorkers == 1
\* a caller begins a bootstrap call only while the counters have handed out
\* fewer ports than this
MaxPorts == 3

----------------------------------------------------------------------------
(* Values. *)

None == "None"

IP_ADDRESS == "127.0.0.1"

\* node_ip_address values passed to start_node
Hosts == {IP_ADDRESS, "10.0.0.2"}

\* scheduler_address values passed by callers that already have a scheduler
ExternalSchedulers == {"10.0.0.1:10001"}

WorkerPaths == {None, "worker.py"}

SCHEDULER_BASE == 10000
WORKER_BASE == 40000
OBJSTORE_BASE == 20000

address(host, port) == host \o ":" \o ToString(port)

\* the counter after the increment of new_scheduler_port
new_scheduler_port_counter(c) == c + 1
new_scheduler_port(c) == SCHEDULER_BASE + new_scheduler_port_counter(c)

new_worker_port_counter(c) == c + 1

\* new_worker_port returning the base plus the counter as it was before the
\* increment of line 29
new_worker_port_before_increment(c) == WORKER_BASE + c

new_worker_port(c) == WORKER_BASE + new_worker_port_counter(c)

new_objstore_port_counter(c) == c + 1

\* new_objstore_port handing out ports of the worker range
new_objstore_port_in_worker_range(c) == WORKER_BASE + new_objstore_port_counter(c)

new_objstore_port(c) == OBJSTORE_BASE + new_objstore_port_counter(c)

\* argv of the three kinds of child process
scheduler_argv(scheduler_address) == <<"scheduler", scheduler_address>>
objstore_argv(scheduler_address, objstore_address) ==
  <<"objstore", scheduler_address, objstore_address>>
worker_argv(test_path, scheduler_address, objstore_address, worker_address) ==
  <<"python", test_path,
    "--scheduler-address=" \o scheduler_address,
    "--objstore-address=" \o objstore_address,
    "--worker-address=" \o worker_address>>

\* events of trace
Popen(argv, pid)  == <<"Popen", argv, pid>>
PopenFailed(argv) == <<"Popen", argv, 0>>
Sleep(ms)         == <<"sleep", ms>>
Connect(s, o, w, d) == <<"connect", s, o, w, d>>
ConnectGlobal(s, o, w) == <<"connect", s, o, w>>
Disconnect(d)     == <<"disconnect", d>>
DisconnectGlobal  == <<"disconnect">>
Poll(ret)         == <<"poll", ret>>
Kill              == <<"kill">>
Terminate         == <<"terminate">>
PrintMsg(msg)     == <<"print", msg>>

\* the driver orchpy.connect and orchpy.disconnect act on when none is passed
GlobalDriver == 0

\* the drivers attached after orchpy.connect(s, o, w, d)
orchpy_connect(s, o, w, d) ==
  connected \cup {[driver |-> d, scheduler_address |-> s,
                   objstore_address |-> o, worker_address |-> w]}

\* the drivers attached after orchpy.disconnect(d)
orchpy_disconnect(d) == {c \in connected : c.driver # d}

NoFrame ==
  [op |-> "none", scheduler_address |-> None, objstore_address |-> None,
   return_drivers |-> FALSE, num_objstores |-> 0,
   num_workers_per_objstore |-> 0, worker_path |-> None,
   node_ip_address |-> None, objstore_addresses |-> <<>>, i |-> 0, j |-> 0,
   driver_workers |-> <<>>,
   scheduler_address_arg |-> None]   \* scheduler_address as the caller passed it

\* Python values a call hands back
PyNone == <<"None">>
PyList(items) == <<"list", items>>

NoResult == [op |-> "none", status |-> "none", exc |-> None, value |-> PyNone]

Returned(op, v) == [op |-> op, status |-> "returned", exc |-> None, value |-> v]
Raised(op, e)   == [op |-> op, status |-> "raised", exc |-> e, value |-> PyNone]

Snapshot == [all_processes |-> all_processes, drivers |-> drivers,
             scheduler_port_counter |-> scheduler_port_counter,
             worker_port_counter |-> worker_port_counter,
             objstore_port_counter |-> objstore_port_counter]

Init ==
  /\ all_processes = <<>>
  /\ drivers = <<>>
  /\ scheduler_port_counter = 0
  /\ worker_port_counter = 0
  /\ objstore_port_counter = 0
  /\ pc = "idle"
  /\ frame = NoFrame
  /\ result = NoResult
  /\ trace = <<>>
  /\ pre = Snapshot
  /\ next_pid = 1
  /\ next_driver = 1
  /\ issued = [scheduler |-> <<>>, worker |-> <<>>, objstore |-> <<>>]
  /\ k = 0
  /\ alive = FALSE
  /\ left_running = FALSE
  /\ connected = {}

cleanupVars == <<k, alive, left_running>>

\* a caller begins a bootstrap call only while fewer than MaxPorts ports have
\* been handed out by the three counters together
CounterRoom ==
  scheduler_port_counter + objstore_port_counter + worker_port_counter
    < MaxPorts

----------------------------------------------------------------------------
(* Ending a call. *)

Return(v) == pc' = "idle" /\ result' = Returned(frame.op, v)
Raise(e)  == pc' = "idle" /\ result' = Raised(frame.op, e)

\* str.format: a replacement field with no argument left raises IndexError
Format(fields, nargs) == IF nargs < fields THEN "IndexError" ELSE "ok"

----------------------------------------------------------------------------
(* The process launchers.  ok: does subprocess.Popen create the process   *)
(* (otherwise it raises OSError and the append is not reached).           *)

\* start_scheduler that registers its record at the front of the registry
start_scheduler_prepends(scheduler_address, ok) ==
  IF ok
  THEN /\ all_processes' =
            <<[p |-> [pid |-> next_pid,
                      argv |-> scheduler_argv(scheduler_address)],
               address |-> scheduler_address]>> \o all_processes
       /\ next_pid' = next_pid + 1
  ELSE UNCHANGED <<all_processes, next_pid>>

start_scheduler(scheduler_address, ok) ==
  IF ok
  THEN /\ all_processes' =
            Append(all_processes,
                   [p |-> [pid |-> next_pid,
                           argv |-> scheduler_argv(scheduler_address)],
                    address |-> scheduler_address])
       /\ next_pid' = next_pid + 1
  ELSE UNCHANGED <<all_processes, next_pid>>

\* start_objstore that registers a record although Popen failed
start_objstore_records_failure(scheduler_address, objstore_address, ok) ==
  /\ all_processes' =
       Append(all_processes,
              [p |-> [pid |-> IF ok THEN next_pid ELSE 0,
                      argv |-> objstore_argv(scheduler_address,
                                             objstore_address)],
               address |-> objstore_address])
  /\ next_pid' = IF ok THEN next_pid + 1 ELSE next_pid

start_objstore(scheduler_address, objstore_address, ok) ==
  IF ok
  THEN /\ all_processes' =
            Append(all_processes,
                   [p |-> [pid |-> next_pid,
                           argv |-> objstore_argv(scheduler_address,
                                                  objstore_address)],
                    address |-> objstore_address])
       /\ next_pid' = next_pid + 1
  ELSE UNCHANGED <<all_processes, next_pid>>

\* start_worker without the append of line 82
start_worker_unregistered(test_path, scheduler_address, objstore_address, worker_address, ok) ==
  /\ next_pid' = IF ok THEN next_pid + 1 ELSE next_pid
  /\ UNCHANGED all_processes

start_worker(test_path, scheduler_address, objstore_address, worker_address, ok) ==
  IF ok
  THEN /\ all_processes' =
            Append(all_processes,
                   [p |-> [pid |-> next_pid,
                           argv |-> worker_argv(test_path, scheduler_address,
                                                objstore_address,
                                                worker_address)],
                    address |-> worker_address])
       /\ next_pid' = next_pid + 1
  ELSE UNCHANGED <<all_processes, next_pid>>

----------------------------------------------------------------------------
(* start_cluster *)

\* the call and its validation (lines 103-108)
start_cluster_call ==
  /\ pc = "idle"
  /\ CounterRoom
  /\ \E sa \in {None} \cup ExternalSchedulers, rd \in BOOLEAN,
        n \in 0..MaxObjstores, m \in 0..MaxWorkers, wp \in WorkerPaths :
       /\ frame' = [NoFrame EXCEPT !.op = "start_cluster",
                                   !.scheduler_address = sa,
                                   !.scheduler_address_arg = sa,
                                   !.return_drivers = rd,
                                   !.num_objstores = n,
                                   !.num_workers_per_objstore = m,
                                   !.worker_path = wp]
       /\ IF m > 0 /\ wp = None
          THEN /\ pc' = "idle"
               /\ result' = Raised("start_cluster",
                                   IF Format(1, 1) = "ok" THEN "Exception"
                                   ELSE Format(1, 1))
          ELSE IF m > 0 /\ n < 1
          THEN /\ pc' = "idle"
               /\ result' = Raised("start_cluster",
                                   IF Format(2, 1) = "ok" THEN "Exception"
                                   ELSE Format(2, 1))
          ELSE /\ pc' = "sc_scheduler"
               /\ result' = [NoResult EXCEPT !.op = "start_cluster",
                                             !.status = "running"]
  /\ pre' = Snapshot
  /\ trace' = <<>>
  /\ k' = 0 /\ alive' = FALSE /\ left_running' = FALSE
  /\ UNCHANGED <<globals, next_pid, next_driver, issued>>
  /\ UNCHANGED connected

\* lines 109-113
sc_scheduler ==
  /\ pc = "sc_scheduler"
  /\ IF frame.scheduler_address = None
     THEN LET port == new_scheduler_port(scheduler_port_counter)
              sa   == address(IP_ADDRESS, port)
          IN /\ scheduler_port_counter' =
                  new_scheduler_port_counter(scheduler_port_counter)
             /\ issued' = [issued EXCEPT !.scheduler = Append(@, port)]
             /\ frame' = [frame EXCEPT !.scheduler_address = sa]
             /\ \E ok \in BOOLEAN :
                  /\ start_scheduler(sa, ok)
                  /\ IF ok
                     THEN /\ trace' = trace \o <<Popen(scheduler_argv(sa), next_pid),
                                                 Sleep(100)>>
                          /\ pc' = "sc_objstore"
                          /\ UNCHANGED result
                     ELSE /\ trace' = trace \o <<PopenFailed(scheduler_argv(sa))>>
                          /\ Raise("OSError")
     ELSE /\ trace' = trace \o <<Sleep(100)>>
          /\ pc' = "sc_objstore"
          /\ UNCHANGED <<scheduler_port_counter, issued, frame, all_processes,
                         next_pid, result>>
  /\ UNCHANGED <<drivers, worker_port_counter, objstore_port_counter, pre,
                 next_driver, cleanupVars>>
  /\ UNCHANGED connected

\* lines 116-120, and leaving the loop for line 125
sc_objstore ==
  /\ pc = "sc_objstore"
  /\ IF frame.i < frame.num_objstores
     THEN LET port == new_objstore_port(objstore_port_counter)
              oa   == address(IP_ADDRESS, port)
              argv == objstore_argv(frame.scheduler_address, oa)
          IN /\ objstore_port_counter' =
                  new_objstore_port_counter(objstore_port_counter)
             /\ issued' = [issued EXCEPT !.objstore = Append(@, port)]
             /\ frame' = [frame EXCEPT !.objstore_address = oa,
                                       !.objstore_addresses = Append(@, oa),
                                       !.j = 0]
             /\ \E ok \in BOOLEAN :
                  /\ start_objstore(frame.scheduler_address, oa, ok)
                  /\ IF ok
                     THEN /\ trace' = trace \o <<Popen(argv, next_pid), Sleep(200)>>
                          /\ pc' = "sc_worker"
                          /\ UNCHANGED result
                     ELSE /\ trace' = trace \o <<PopenFailed(argv)>>
                          /\ Raise("OSError")
     ELSE /\ pc' = IF frame.return_drivers THEN "sc_driver" ELSE "sc_connect"
          /\ frame' = [frame EXCEPT !.i = 0]
          /\ UNCHANGED <<objstore_port_counter, issued, all_processes, next_pid,
                         trace, result>>
  /\ UNCHANGED <<drivers, scheduler_port_counter, worker_port_counter, pre,
                 next_driver, cleanupVars>>
  /\ UNCHANGED connected

\* A worker attached to the first object store instead of the one of its
\* own iteration.
worker_objstore_address_first == frame.objstore_addresses[1]

\* Line 122: the worker is given the address of the object store started in
\* the same iteration of the loop of line 116.
worker_objstore_address == frame.objstore_address

\* lines 121-123
sc_worker ==
  /\ pc = "sc_worker"
  /\ IF frame.j < frame.num_workers_per_objstore
     THEN LET port == new_worker_port(worker_port_counter)
              wa   == address(IP_ADDRESS, port)
              argv == worker_argv(frame.worker_path, frame.scheduler_address,
                                  worker_objstore_address, wa)
          IN /\ worker_port_counter' = new_worker_port_counter(worker_port_counter)
             /\ issued' = [issued EXCEPT !.worker = Append(@, port)]
             /\ \E ok \in BOOLEAN :
                  /\ start_worker(frame.worker_path, frame.scheduler_address,
                                  worker_objstore_address, wa, ok)
                  /\ IF ok
                     THEN /\ trace' = trace \o <<Popen(argv, next_pid)>>
                          /\ frame' = [frame EXCEPT !.j = @ + 1]
                          /\ UNCHANGED <<pc, result>>
                     ELSE /\ trace' = trace \o <<PopenFailed(argv)>>
                          /\ UNCHANGED frame
                          /\ Raise("OSError")
     ELSE /\ trace' = trace \o <<Sleep(300)>>
          /\ frame' = [frame EXCEPT !.i = @ + 1]
          /\ pc' = "sc_objstore"
          /\ UNCHANGED <<worker_port_counter, issued, all_processes, next_pid,
                         result>>
  /\ UNCHANGED <<drivers, scheduler_port_counter, objstore_port_counter, pre,
                 next_driver, cleanupVars>>
  /\ UNCHANGED connected

\* the object-store address line 129 hands to orchpy.connect
driver_objstore_address == frame.objstore_address

\* line 133 without the value
driver_return_value_missing == PyNone

\* the value line 133 returns
driver_return_value == PyList(frame.driver_workers)

\* lines 126-133
sc_driver ==
  /\ pc = "sc_driver"
  /\ IF frame.i < frame.num_objstores
     THEN LET port == new_worker_port(worker_port_counter)
              wa   == address(IP_ADDRESS, port)
              driver_worker == next_driver
          IN /\ worker_port_counter' = new_worker_port_counter(worker_port_counter)
             /\ issued' = [issued EXCEPT !.worker = Append(@, port)]
             /\ next_driver' = next_driver + 1
             /\ trace' = trace \o <<Connect(frame.scheduler_address,
                                            driver_objstore_address, wa,
                                            driver_worker)>>
             /\ frame' = [frame EXCEPT !.driver_workers = Append(@, driver_worker),
                                       !.i = @ + 1]
             /\ drivers' = Append(drivers, driver_worker)
             /\ connected' = orchpy_connect(frame.scheduler_address,
                                            driver_objstore_address, wa,
                                            driver_worker)
             /\ UNCHANGED <<pc, result>>
     ELSE /\ trace' = trace \o <<Sleep(500)>>
          /\ Return(driver_return_value)
          /\ UNCHANGED <<worker_port_counter, issued, next_driver, frame, drivers,
                         connected>>
  /\ UNCHANGED <<all_processes, scheduler_port_counter, objstore_port_counter,
                 pre, next_pid, cleanupVars>>

\* line 135 with the variable left over from the launch loop
global_objstore_address_last == frame.objstore_address

\* the object-store address line 135 hands to orchpy.connect
global_objstore_address == frame.objstore_addresses[1]

\* lines 135-136
sc_connect ==
  /\ pc = "sc_connect"
  /\ IF Len(frame.objstore_addresses) = 0
     THEN \* objstore_addresses[0] is evaluated before new_worker_port()
          /\ Raise("IndexError")
          /\ UNCHANGED <<worker_port_counter, issued, trace, connected>>
     ELSE LET port == new_worker_port(worker_port_counter)
              wa   == address(IP_ADDRESS, port)
          IN /\ worker_port_counter' = new_worker_port_counter(worker_port_counter)
             /\ issued' = [issued EXCEPT !.worker = Append(@, port)]
             /\ trace' = trace \o <<ConnectGlobal(frame.scheduler_address,
                                                  global_objstore_address, wa),
                                    Sleep(500)>>
             /\ connected' = orchpy_connect(frame.scheduler_address,
                                            global_objstore_address, wa,
                                            GlobalDriver)
             /\ Return(PyNone)
  /\ UNCHANGED <<all_processes, drivers, scheduler_port_counter,
                 objstore_port_counter, frame, pre, next_pid, next_driver,
                 cleanupVars>>

----------------------------------------------------------------------------
(* start_node *)

\* the call and lines 94-96
start_node_call ==
  /\ pc = "idle"
  /\ CounterRoom
  /\ \E sa \in ExternalSchedulers, host \in Hosts, nw \in 0..MaxWorkers,
        wp \in WorkerPaths :
       LET port == new_objstore_port(objstore_port_counter)
           oa   == address(host, port)
           argv == objstore_argv(sa, oa)
       IN /\ objstore_port_counter' =
               new_objstore_port_counter(objstore_port_counter)
          /\ issued' = [issued EXCEPT !.objstore = Append(@, port)]
          /\ frame' = [NoFrame EXCEPT !.op = "start_node",
                                      !.scheduler_address = sa,
                                      !.scheduler_address_arg = sa,
                                      !.node_ip_address = host,
                                      !.num_objstores = 1,
                                      !.num_workers_per_objstore = nw,
                                      !.worker_path = wp,
                                      !.objstore_address = oa]
          /\ \E ok \in BOOLEAN :
               /\ start_objstore(sa, oa, ok)
               /\ IF ok
                  THEN /\ trace' = <<Popen(argv, next_pid), Sleep(200)>>
                       /\ pc' = "sn_workers"
                       /\ result' = [NoResult EXCEPT !.op = "start_node",
                                                     !.status = "running"]
                  ELSE /\ trace' = <<PopenFailed(argv)>>
                       /\ pc' = "idle"
                       /\ result' = Raised("start_node", "OSError")
  /\ pre' = Snapshot
  /\ k' = 0 /\ alive' = FALSE /\ left_running' = FALSE
  /\ UNCHANGED <<drivers, scheduler_port_counter, worker_port_counter,
                 next_driver>>
  /\ UNCHANGED connected

\* the names start_node can read: its parameters and the module's globals
start_node_names ==
  {"scheduler_address", "node_ip_address", "num_workers", "worker_path",
   "objstore_address", "subprocess", "os", "atexit", "time", "orchpy",
   "worker", "_services_path", "all_processes", "drivers", "IP_ADDRESS",
   "TIMEOUT_SECONDS", "address", "scheduler_port_counter",
   "new_scheduler_port", "worker_port_counter", "new_worker_port",
   "objstore_port_counter", "new_objstore_port", "cleanup", "start_scheduler",
   "start_objstore", "start_worker", "start_node", "start_cluster"}

\* line 97: range(num_workers_per_objstore).  start_node has no parameter and
\* the module no global of that name (the parameter is num_workers), so the
\* lookup raises NameError and lines 98-101 are never reached.
sn_workers ==
  /\ pc = "sn_workers"
  /\ IF "num_workers_per_objstore" \in start_node_names
     THEN /\ pc' = "sn_worker"
          /\ UNCHANGED result
     ELSE Raise("NameError")
  /\ UNCHANGED <<globals, frame, trace, pre, next_pid, next_driver, issued,
                 cleanupVars>>
  /\ UNCHANGED connected

----------------------------------------------------------------------------
(* cleanup *)

\* the call
cleanup_call ==
  /\ pc = "idle"
  /\ frame' = [NoFrame EXCEPT !.op = "cleanup"]
  /\ result' = [NoResult EXCEPT !.op = "cleanup", !.status = "running"]
  /\ pre' = Snapshot
  /\ trace' = <<>>
  /\ k' = 0 /\ alive' = FALSE /\ left_running' = FALSE
  /\ pc' = "cl_loop"
  /\ UNCHANGED <<globals, next_pid, next_driver, issued>>
  /\ UNCHANGED connected

\* cl_loop without the `continue` of line 43
cl_loop_kills_exited ==
  /\ pc = "cl_loop"
  /\ k < Len(all_processes)
  /\ k' = k + 1
  /\ \E exited \in BOOLEAN :
       /\ trace' = IF exited
                   THEN <<Poll("returncode"), PrintMsg("has already terminated"),
                          PrintMsg("Attempting to kill")>>
                   ELSE <<Poll(None), PrintMsg("Attempting to kill")>>
       /\ alive' = ~exited
       /\ pc' = "cl_kill"
  /\ UNCHANGED <<globals, frame, result, pre, next_pid, next_driver, issued,
                 left_running>>
  /\ UNCHANGED connected

\* lines 40-44: the next record of all_processes; exited: has its process
\* exited by now
cl_loop ==
  /\ pc = "cl_loop"
  /\ k < Len(all_processes)
  /\ k' = k + 1
  /\ \E exited \in BOOLEAN :
       IF exited
       THEN /\ trace' = <<Poll("returncode"), PrintMsg("has already terminated")>>
            /\ alive' = FALSE
            /\ UNCHANGED pc
       ELSE /\ trace' = <<Poll(None), PrintMsg("Attempting to kill")>>
            /\ alive' = TRUE
            /\ pc' = "cl_kill"
  /\ UNCHANGED <<globals, frame, result, pre, next_pid, next_driver, issued,
                 left_running>>
  /\ UNCHANGED connected

\* cl_kill without the `continue` of line 49
cl_kill_no_continue ==
  /\ pc = "cl_kill"
  /\ \E exited \in BOOLEAN :
       /\ alive' = ~exited
       /\ trace' = trace \o
            (IF exited
             THEN <<Kill, Sleep(50), Poll("returncode"),
                    PrintMsg("Successfully killed"),
                    PrintMsg("Kill attempt failed")>>
             ELSE <<Kill, Sleep(50), Poll(None),
                    PrintMsg("Kill attempt failed")>>)
       /\ pc' = "cl_terminate"
  /\ UNCHANGED <<globals, frame, result, pre, next_pid, next_driver, issued, k,
                 left_running>>
  /\ UNCHANGED connected

\* lines 45-50; exited: has the process exited when the grace interval ends
cl_kill ==
  /\ pc = "cl_kill"
  /\ \E exited \in BOOLEAN :
       /\ alive' = ~exited
       /\ IF exited
          THEN /\ trace' = trace \o <<Kill, Sleep(50), Poll("returncode"),
                                      PrintMsg("Successfully killed")>>
               /\ pc' = "cl_loop"
          ELSE /\ trace' = trace \o <<Kill, Sleep(50), Poll(None),
                                      PrintMsg("Kill attempt failed")>>
               /\ pc' = "cl_terminate"
  /\ UNCHANGED <<globals, frame, result, pre, next_pid, next_driver, issued, k,
                 left_running>>
  /\ UNCHANGED connected

\* line 53: `p.poll is not None` compares the bound method, not its result
p_poll_is_not_None == TRUE

\* cl_terminate that raises when the process outlives the terminate signal
cl_terminate_raises ==
  /\ pc = "cl_terminate"
  /\ \E exited \in BOOLEAN :
       /\ alive' = ~exited
       /\ left_running' = (left_running \/ ~exited)
       /\ trace' = trace \o <<Terminate, Sleep(50)>>
       /\ IF exited
          THEN pc' = "cl_loop" /\ UNCHANGED result
          ELSE Raise("Exception")
  /\ UNCHANGED <<globals, frame, pre, next_pid, next_driver, issued, k>>
  /\ UNCHANGED connected

\* lines 51-56; exited: has the process exited when the grace interval ends
cl_terminate ==
  /\ pc = "cl_terminate"
  /\ \E exited \in BOOLEAN :
       /\ alive' = ~exited
       /\ left_running' = (left_running \/ ~exited)
  /\ trace' = trace \o <<Terminate, Sleep(50),
                         IF p_poll_is_not_None
                         THEN PrintMsg("Successfully terminated")
                         ELSE PrintMsg("giving up")>>
  /\ pc' = "cl_loop"
  /\ UNCHANGED <<globals, frame, result, pre, next_pid, next_driver, issued, k>>
  /\ UNCHANGED connected

\* cl_clear without the assignment of line 57
cl_clear_keeps_records ==
  /\ pc = "cl_loop"
  /\ k >= Len(all_processes)
  /\ trace' = <<>>
  /\ pc' = "cl_drivers"
  /\ UNCHANGED <<globals, frame, result, pre, next_pid, next_driver, issued,
                 cleanupVars>>
  /\ UNCHANGED connected

\* line 57, when the loop of line 40 is exhausted
cl_clear ==
  /\ pc = "cl_loop"
  /\ k >= Len(all_processes)
  /\ all_processes' = <<>>
  /\ trace' = <<>>
  /\ pc' = "cl_drivers"
  /\ UNCHANGED <<drivers, scheduler_port_counter, worker_port_counter,
                 objstore_port_counter, frame, result, pre, next_pid,
                 next_driver, issued, cleanupVars>>
  /\ UNCHANGED connected

\* lines 60-61
cl_drivers ==
  /\ pc = "cl_drivers"
  /\ frame.i < Len(drivers)
  /\ trace' = Append(trace, Disconnect(drivers[frame.i + 1]))
  /\ connected' = orchpy_disconnect(drivers[frame.i + 1])
  /\ frame' = [frame EXCEPT !.i = @ + 1]
  /\ UNCHANGED <<globals, pc, result, pre, next_pid, next_driver, issued,
                 cleanupVars>>

\* The implicit disconnect issued whatever the driver registry holds.
implicit_disconnect_always == TRUE

\* Line 62: the implicit global disconnect is issued only when the driver
\* registry is empty.
implicit_disconnect_due == Len(drivers) = 0

\* cl_finish that also starts the port counters afresh
cl_finish_resets_counters ==
  /\ pc = "cl_drivers"
  /\ frame.i >= Len(drivers)
  /\ trace' = IF Len(drivers) = 0 THEN Append(trace, DisconnectGlobal) ELSE trace
  /\ connected' = IF Len(drivers) = 0 THEN orchpy_disconnect(GlobalDriver)
                  ELSE connected
  /\ drivers' = <<>>
  /\ scheduler_port_counter' = 0
  /\ worker_port_counter' = 0
  /\ objstore_port_counter' = 0
  /\ Return(PyNone)
  /\ UNCHANGED <<all_processes, frame, pre, next_pid, next_driver, issued,
                 cleanupVars>>

\* lines 62-64
cl_finish ==
  /\ pc = "cl_drivers"
  /\ frame.i >= Len(drivers)
  /\ trace' = IF implicit_disconnect_due THEN Append(trace, DisconnectGlobal)
              ELSE trace
  /\ connected' = IF implicit_disconnect_due THEN orchpy_disconnect(GlobalDriver)
                  ELSE connected
  /\ drivers' = <<>>
  /\ Return(PyNone)
  /\ UNCHANGED <<all_processes, scheduler_port_counter, worker_port_counter,
                 objstore_port_counter, frame, pre, next_pid, next_driver,
                 issued, cleanupVars>>

----------------------------------------------------------------------------

Next ==
  \/ start_cluster_call
  \/ sc_scheduler
  \/ sc_objstore
  \/ sc_worker
  \/ sc_driver
  \/ sc_connect
  \/ start_node_call
  \/ sn_workers
  \/ cleanup_call
  \/ cl_loop
  \/ cl_kill
  \/ cl_terminate
  \/ cl_clear
  \/ cl_drivers
  \/ cl_finish

Spec == Init /\ [][Next]_vars

----------------------------------------------------------------------------
(* Reading the trace and the outcome of a call. *)

Ended(op)    == pc = "idle" /\ result.op = op
ReturnedFrom(op) == Ended(op) /\ result.status = "returned"
RaisedFrom(op)   == Ended(op) /\ result.status = "raised"

IsSpawn(e)       == e[1] = "Popen" /\ e[3] > 0
IsFailedSpawn(e) == e[1] = "Popen" /\ e[3] = 0
IsConnect(e)     == e[1] = "connect"
IsDriverConnect(e) == e[1] = "connect" /\ Len(e) = 5
IsSignal(e)      == e[1] \in {"kill", "terminate"}

Spawns       == SelectSeq(trace, IsSpawn)
FailedSpawns == SelectSeq(trace, IsFailedSpawn)
Connects     == SelectSeq(trace, IsConnect)
DriverConnects == SelectSeq(trace, IsDriverConnect)
Signals      == SelectSeq(trace, IsSignal)

\* the records of all_processes added since the call began
Added == SubSeq(all_processes, Len(pre.all_processes) + 1, Len(all_processes))

RoleOf(rec) == rec.p.argv[1]
IsRole(role, rec) == RoleOf(rec) = role
CountRole(role, recs) ==
  Cardinality({n \in 1..Len(recs) : RoleOf(recs[n]) = role})

\* the configuration lines 105-108 reject
InvalidConfig ==
  /\ frame.num_workers_per_objstore > 0
  /\ frame.worker_path = None \/ frame.num_objstores < 1

InCleanupLoop == pc \in {"cl_loop", "cl_kill", "cl_terminate"} /\ Len(trace) > 0

----------------------------------------------------------------------------
(* The claims. *)

\* C1: after any call to cleanup() returns, the process registry and the
\* driver registry are both empty, whatever was registered before and whether
\* or not a tracked process was left behind still running.
C1_CleanupEmptiesRegistries ==
  ReturnedFrom("cleanup") => all_processes = <<>> /\ drivers = <<>>

\* a cleanup() that began with records and drivers registered, left a process
\* running, and has returned
C1_Witness ==
  /\ ReturnedFrom("cleanup")
  /\ Len(pre.all_processes) >= 2
  /\ Len(pre.drivers) >= 1
  /\ left_running

\* C2: start_cluster with return_drivers=true and num_objstores=N >= 1
\* returns exactly N driver handles in order, the i-th connected to the i-th
\* object-store address allocated by the call, each with its own freshly
\* allocated worker address, and all N appended to the driver registry.
C2_DriverPerObjstore ==
  (ReturnedFrom("start_cluster") /\ frame.return_drivers
     /\ frame.num_objstores >= 1)
  => /\ Len(frame.driver_workers) = frame.num_objstores
     /\ result.value = PyList(frame.driver_workers)
     /\ Len(DriverConnects) = frame.num_objstores
     /\ Connects = DriverConnects
     /\ \A n \in 1..Len(DriverConnects) :
          /\ DriverConnects[n][2] = frame.scheduler_address
          /\ DriverConnects[n][3] = frame.objstore_addresses[n]
          /\ DriverConnects[n][5] = frame.driver_workers[n]
          /\ \A rec \in {all_processes[x] : x \in 1..Len(all_processes)} :
               rec.address # DriverConnects[n][4]
          /\ \A o \in 1..Len(DriverConnects) :
               o # n => DriverConnects[o][4] # DriverConnects[n][4]
     /\ drivers = pre.drivers \o frame.driver_workers

\* C3: start_cluster called with workers_per_objstore > 0 and either
\* worker_path unset or num_objstores < 1 raises the configuration error
\* (the Exception of lines 106 and 108) before any process is launched: the
\* registries and the three counters are as before the call and no process
\* is spawned and no connect is made.
C3_ConfigErrorBeforeLaunch ==
  (Ended("start_cluster") /\ InvalidConfig)
  => /\ result.status = "raised"
     /\ result.exc = "Exception"
     /\ Snapshot = pre
     /\ trace = <<>>

\* the part of C3 about the state: an invalid configuration ends the call
\* with an exception and leaves the registries and the counters untouched
C3_InvalidConfigLeavesState ==
  (Ended("start_cluster") /\ InvalidConfig)
  => /\ result.status = "raised"
     /\ Snapshot = pre
     /\ trace = <<>>

\* C4: every start_cluster call either completes, or raises a configuration
\* error before any process is launched, or raises because a launch failed;
\* so when no spawn fails it never raises after it has launched a process.
C4_ThreeWaysToEnd ==
  Ended("start_cluster")
  => \/ result.status = "returned"
     \/ /\ result.status = "raised"
        /\ InvalidConfig
        /\ trace = <<>>
     \/ /\ result.status = "raised"
        /\ Len(FailedSpawns) = 1
        /\ IsFailedSpawn(trace[Len(trace)])

\* C5: during cleanup(), a tracked process found already exited when its
\* record is reached receives neither kill nor terminate; cleanup moves on
\* to the next record.
C5_ExitedProcessNotSignalled ==
  (InCleanupLoop /\ trace[1] = Poll("returncode"))
  => /\ Signals = <<>>
     /\ pc = "cl_loop"

\* an exited process was skipped while a later record is still to be handled
C5_Witness ==
  /\ InCleanupLoop
  /\ trace[1] = Poll("returncode")
  /\ pc = "cl_loop"
  /\ k < Len(all_processes)

\* C6: during cleanup(), for a tracked process that is still running the
\* forceful kill is sent first; terminate is sent only after the kill, the
\* grace interval and a re-check that found the process still running; a
\* process seen exited after the kill never receives terminate; and no
\* record receives more than one kill and one terminate.
C6_EscalationOrder ==
  InCleanupLoop
  => /\ Signals \in {<<>>, <<Kill>>, <<Kill, Terminate>>}
     /\ \A t \in 1..Len(trace) :
          trace[t] = Kill
          => \E a \in 1..(t - 1) : trace[a] = Poll(None)
     /\ \A t \in 1..Len(trace) :
          trace[t] = Terminate
          => /\ t > 3
             /\ \E a \in 1..(t - 3) :
                  /\ trace[a] = Kill
                  /\ trace[a + 1] = Sleep(50)
                  /\ trace[a + 2] = Poll(None)
             /\ \A a \in 1..Len(trace) : trace[a] # Poll("returncode")

\* a record that got the kill, was found still running and got terminate
C6_Witness ==
  /\ InCleanupLoop
  /\ pc = "cl_loop"
  /\ Signals = <<Kill, Terminate>>

\* C7: during cleanup(), a process still running when the grace interval
\* after terminate has passed is reported as not stoppable ("giving up");
\* success after terminate is reported only when the process has exited.
C7_GiveUpReported ==
  (InCleanupLoop /\ pc = "cl_loop" /\ Signals = <<Kill, Terminate>>)
  => /\ alive => trace[Len(trace)] = PrintMsg("giving up")
     /\ ~alive => trace[Len(trace)] = PrintMsg("Successfully terminated")

\* C8 as stated: a start_cluster call in which no spawn fails, with
\* num_objstores = N >= 1 and workers_per_objstore = M, adds exactly N
\* object-store records, N*M worker records, one scheduler record when no
\* scheduler_address was passed and none (and no scheduler port) otherwise.
C8_RecordsAdded ==
  (Ended("start_cluster") /\ frame.num_objstores >= 1 /\ FailedSpawns = <<>>)
  => /\ CountRole("objstore", Added) = frame.num_objstores
     /\ CountRole("python", Added) =
          frame.num_objstores * frame.num_workers_per_objstore
     /\ CountRole("scheduler", Added) =
          (IF frame.scheduler_address_arg = None THEN 1 ELSE 0)
     /\ Len(Added) = CountRole("objstore", Added) + CountRole("python", Added)
                       + CountRole("scheduler", Added)
     /\ frame.scheduler_address_arg # None
          => scheduler_port_counter = pre.scheduler_port_counter

\* C8 amended: the same, for a call that passes the validation of lines
\* 105-108 (worker_path is set whenever workers_per_objstore > 0).
C8_RecordsAddedValidConfig ==
  (Ended("start_cluster") /\ frame.num_objstores >= 1 /\ FailedSpawns = <<>>
     /\ ~InvalidConfig)
  => /\ CountRole("objstore", Added) = frame.num_objstores
     /\ CountRole("python", Added) =
          frame.num_objstores * frame.num_workers_per_objstore
     /\ CountRole("scheduler", Added) =
          (IF frame.scheduler_address_arg = None THEN 1 ELSE 0)
     /\ Len(Added) = CountRole("objstore", Added) + CountRole("python", Added)
                       + CountRole("scheduler", Added)
     /\ frame.scheduler_address_arg # None
          => scheduler_port_counter = pre.scheduler_port_counter

\* a call with its own scheduler, two object stores and a worker on each
C8_Witness ==
  /\ Ended("start_cluster")
  /\ FailedSpawns = <<>>
  /\ ~InvalidConfig
  /\ frame.scheduler_address_arg = None
  /\ frame.num_objstores = 2
  /\ frame.num_workers_per_objstore = 1
  /\ Len(Added) = 5

StrictlyIncreasing(seq) ==
  \A a, b \in 1..Len(seq) : a < b => seq[a] < seq[b]

\* C9: for each of the three port counters the ports handed out over the
\* orchestrator's lifetime are strictly increasing and never repeat, and no
\* step of start_cluster, start_node or cleanup() lowers a counter.
C9_PortsNeverReused ==
  /\ [](/\ StrictlyIncreasing(issued.scheduler)
        /\ StrictlyIncreasing(issued.objstore)
        /\ StrictlyIncreasing(issued.worker))
  /\ [][/\ scheduler_port_counter' >= scheduler_port_counter
        /\ objstore_port_counter' >= objstore_port_counter
        /\ worker_port_counter' >= worker_port_counter]_vars

\* a second object-store port was handed out after a cleanup() had emptied
\* a registry holding the process of the first
C9_Witness ==
  /\ Len(issued.objstore) >= 2
  /\ Len(all_processes) = 1
  /\ all_processes[1].p.pid >= 2
  /\ RoleOf(all_processes[1]) = "objstore"

PidsOf(recs) == [n \in 1..Len(recs) |-> recs[n].p.pid]
SpawnPids == [n \in 1..Len(Spawns) |-> Spawns[n][3]]

\* C10: when a spawn fails during start_cluster no record is added for it,
\* the records registered before it (in this call and in earlier ones) stay,
\* the error reaches the caller and nothing further is launched or
\* connected; so every record in the registry is of a spawned process.
C10_FailedSpawnAddsNoRecord ==
  /\ (result.op = "start_cluster" /\ FailedSpawns # <<>>)
     => /\ pc = "idle"
        /\ result.status = "raised"
        /\ result.exc = "OSError"
        /\ Len(FailedSpawns) = 1
        /\ IsFailedSpawn(trace[Len(trace)])
        /\ Connects = <<>>
        /\ PidsOf(all_processes) = PidsOf(pre.all_processes) \o SpawnPids
  /\ \A n \in 1..Len(all_processes) :
       all_processes[n].p.pid \in 1..(next_pid - 1)

\* a spawn failed after an earlier call and an earlier stage of this call
\* had each registered a process
C10_Witness ==
  /\ RaisedFrom("start_cluster")
  /\ FailedSpawns # <<>>
  /\ Len(pre.all_processes) >= 1
  /\ Len(Spawns) >= 1

\* C11 as stated: start_cluster with return_drivers=false and
\* num_objstores >= 1, no spawn failing, makes exactly one connect call,
\* without a driver handle, against the scheduler address, the first
\* object-store address allocated by the call and one freshly allocated
\* worker address, and leaves the driver registry unchanged.
C11_OneGlobalConnect ==
  (Ended("start_cluster") /\ ~frame.return_drivers
     /\ frame.num_objstores >= 1 /\ FailedSpawns = <<>>)
  => /\ Len(Connects) = 1
     /\ Connects =
          <<ConnectGlobal(frame.scheduler_address, frame.objstore_addresses[1],
                          address(IP_ADDRESS, 40000 + worker_port_counter))>>
     /\ worker_port_counter =
          pre.worker_port_counter
            + frame.num_objstores * frame.num_workers_per_objstore + 1
     /\ \A n \in 1..Len(all_processes) :
          all_processes[n].address
            # address(IP_ADDRESS, 40000 + worker_port_counter)
     /\ drivers = pre.drivers

\* C11 amended: the same, for a call that passes the validation of lines
\* 105-108 (worker_path is set whenever workers_per_objstore > 0).
C11_OneGlobalConnectValidConfig ==
  (Ended("start_cluster") /\ ~frame.return_drivers
     /\ frame.num_objstores >= 1 /\ FailedSpawns = <<>> /\ ~InvalidConfig)
  => /\ result.status = "returned"
     /\ Connects =
          <<ConnectGlobal(frame.scheduler_address, frame.objstore_addresses[1],
                          address(IP_ADDRESS, 40000 + worker_port_counter))>>
     /\ worker_port_counter =
          pre.worker_port_counter
            + frame.num_objstores * frame.num_workers_per_objstore + 1
     /\ \A n \in 1..Len(all_processes) :
          all_processes[n].address
            # address(IP_ADDRESS, 40000 + worker_port_counter)
     /\ drivers = pre.drivers

\* a call without return_drivers that launched two object stores with a
\* worker each and then connected
C11_Witness ==
  /\ ReturnedFrom("start_cluster")
  /\ ~frame.return_drivers
  /\ frame.num_objstores = 2
  /\ frame.num_workers_per_objstore = 1
  /\ Len(Connects) = 1

\* C12: start_node, called after a cluster exists and with no spawn failing,
\* completes without error, launches no scheduler, exactly one object store
\* bound to the given scheduler address and then num_workers workers bound to
\* that scheduler and that object store, and registers all of them.
C12_StartNodeAddsNode ==
  (Ended("start_node") /\ Len(pre.all_processes) >= 1 /\ FailedSpawns = <<>>)
  => /\ result.status = "returned"
     /\ CountRole("scheduler", Added) = 0
     /\ CountRole("objstore", Added) = 1
     /\ Added[1].p.argv = objstore_argv(frame.scheduler_address_arg,
                                        frame.objstore_address)
     /\ CountRole("python", Added) = frame.num_workers_per_objstore
     /\ Len(Added) = 1 + frame.num_workers_per_objstore
     /\ PidsOf(Added) = SpawnPids

PyTuple(items) == <<"tuple", items>>

\* C13 as stated: a successful start_cluster call returns the scheduler
\* address in use and the ordered object-store addresses it allocated, in
\* addition to the driver handles when return_drivers is true.
C13_ReturnsAddresses ==
  ReturnedFrom("start_cluster")
  => result.value =
       IF frame.return_drivers
       THEN PyTuple(<<frame.scheduler_address, frame.objstore_addresses,
                      frame.driver_workers>>)
       ELSE PyTuple(<<frame.scheduler_address, frame.objstore_addresses>>)

\* C13 amended: a successful start_cluster call returns the ordered list of
\* driver handles when return_drivers is true and None otherwise; the
\* scheduler address and the object-store addresses are not returned.
C13_ReturnsDriversOnly ==
  ReturnedFrom("start_cluster")
  => result.value =
       IF frame.return_drivers THEN PyList(frame.driver_workers) ELSE PyNone

\* a call that allocated its own scheduler address and returned two drivers
C13_Witness ==
  /\ ReturnedFrom("start_cluster")
  /\ frame.return_drivers
  /\ frame.scheduler_address_arg = None
  /\ Len(frame.driver_workers) = 2

\* ---------------------------------------------------------------------------
\* cleanup: the disconnects
\* ---------------------------------------------------------------------------

IsDisconnect(e) == e[1] = "disconnect"

Disconnects == SelectSeq(trace, IsDisconnect)

\* The disconnects lines 60-63 owe to the driver registry as it was when
\* cleanup was called.
ExpectedDisconnects ==
  IF pre.drivers = <<>>
  THEN <<DisconnectGlobal>>
  ELSE [n \in 1..Len(pre.drivers) |-> Disconnect(pre.drivers[n])]

\* C14: a call of cleanup disconnects every registered driver handle, each
\* exactly once and in registration order, or, when no driver handle is
\* registered, issues exactly one implicit global disconnect, and never both;
\* no disconnect is issued before every record of the process registry has
\* been handled and the registry cleared.
C14_DisconnectsAfterProcesses ==
  /\ ReturnedFrom("cleanup") => trace = ExpectedDisconnects
  /\ (frame.op = "cleanup" /\ pc = "cl_drivers") =>
       /\ frame.i <= Len(drivers)
       /\ drivers = pre.drivers
       /\ trace = [n \in 1..frame.i |-> Disconnect(drivers[n])]
  /\ ((frame.op = "cleanup" \/ result.op = "cleanup") /\ Len(Disconnects) > 0) =>
       /\ pc \in {"cl_drivers", "idle"}
       /\ k = Len(pre.all_processes)
       /\ all_processes = <<>>

C14_Witness ==
  /\ ReturnedFrom("cleanup")
  /\ Len(pre.drivers) = 2
  /\ Len(pre.all_processes) >= 2
  /\ trace = <<Disconnect(pre.drivers[1]), Disconnect(pre.drivers[2])>>

\* ---------------------------------------------------------------------------
\* start_cluster: the order of launches, delays and connects
\* ---------------------------------------------------------------------------

\* A launch attempt of the given role, successful or not.
IsLaunch(e) == e[1] = "Popen"

LaunchOf(e, role) == IsLaunch(e) /\ e[2][1] = role

ObjstoreLaunchesBefore(t) ==
  Cardinality({a \in 1..(t - 1) : LaunchOf(trace[a], "objstore")})

\* C15: within one start_cluster call the scheduler, when launched, is the
\* first event and is followed by its settle delay; the first object store is
\* launched right after that delay; each worker is launched after the launch
\* and the settle delay of the object store of its own iteration, with the
\* scheduler address of the call and that object store's address; a further
\* object store is launched only after the workers of the previous one and
\* the longer settle delay; and no launch follows a connect.
C15_LaunchOrder ==
  frame.op = "start_cluster" =>
    LET n == Len(trace)
        first == IF frame.scheduler_address_arg = None THEN 3 ELSE 2
    IN /\ \A t \in 1..n :
            LaunchOf(trace[t], "scheduler") =>
              /\ t = 1
              /\ frame.scheduler_address_arg = None
              /\ trace[t][2][2] = frame.scheduler_address
              /\ n >= 2 => trace[2] = Sleep(100)
       /\ (n >= 1 /\ frame.scheduler_address_arg = None) =>
            LaunchOf(trace[1], "scheduler")
       /\ \A t \in 1..n :
            LaunchOf(trace[t], "objstore") =>
              /\ t >= first
              /\ trace[first - 1] = Sleep(100)
              /\ IF t = first
                 THEN ObjstoreLaunchesBefore(t) = 0
                 ELSE /\ trace[t - 1] = Sleep(300)
                      /\ ObjstoreLaunchesBefore(t) >= 1
              /\ trace[t][2][2] = frame.scheduler_address
              /\ trace[t][2][3] =
                   frame.objstore_addresses[ObjstoreLaunchesBefore(t) + 1]
              /\ n > t => trace[t + 1] = Sleep(200)
       /\ \A t \in 1..n :
            LaunchOf(trace[t], "python") =>
              \E a \in 1..(t - 2) :
                /\ LaunchOf(trace[a], "objstore")
                /\ IsSpawn(trace[a])
                /\ trace[a + 1] = Sleep(200)
                /\ \A b \in (a + 2)..(t - 1) :
                     LaunchOf(trace[b], "python") /\ IsSpawn(trace[b])
                /\ t - (a + 2) < frame.num_workers_per_objstore
                /\ trace[t][2][3] =
                     "--scheduler-address=" \o frame.scheduler_address
                /\ trace[t][2][4] = "--objstore-address=" \o trace[a][2][3]
       /\ \A t \in 1..n :
            IsConnect(trace[t]) =>
              /\ \A b \in 1..n : IsLaunch(trace[b]) => b < t
              /\ FailedSpawns = <<>>
              /\ ObjstoreLaunchesBefore(t) = frame.num_objstores
              /\ Len(Spawns) =
                   (IF frame.scheduler_address_arg = None THEN 1 ELSE 0)
                   + frame.num_objstores
                   + frame.num_objstores * frame.num_workers_per_objstore

C15_Witness ==
  /\ ReturnedFrom("start_cluster")
  /\ frame.scheduler_address_arg = None
  /\ frame.return_drivers
  /\ frame.num_objstores = 2
  /\ frame.num_workers_per_objstore = 1
  /\ Len(Spawns) = 5
  /\ Len(Connects) = 2
  /\ LaunchOf(trace[7], "objstore")

\* ---------------------------------------------------------------------------
\* The process registry as the log of successful launches
\* ---------------------------------------------------------------------------

\* The address a launched process was told to bind to, as its command line
\* carries it (lines 69, 73, 77-81).
BoundTo(argv, a) ==
  CASE argv[1] = "scheduler" -> argv[2] = a
    [] argv[1] = "objstore"  -> argv[3] = a
    [] argv[1] = "python"    -> argv[5] = "--worker-address=" \o a

RecordOfLaunch(rec, e) ==
  /\ rec.p.argv = e[2]
  /\ rec.p.pid = e[3]
  /\ BoundTo(e[2], rec.address)

\* C16: in every reachable state the process registry is the registry the
\* running (or last) call found, followed by one record per successful launch
\* of that call, in launch order, each holding the launched process and the
\* bind address on its command line; every call starts from the registry the
\* previous one left; and a step changes the registry only by appending one
\* record during a bootstrap call or by clearing it during cleanup().
C16_RegistryIsLaunchLog ==
  /\ [](/\ frame.op \in {"start_cluster", "start_node"} =>
             /\ Len(all_processes) = Len(pre.all_processes) + Len(Spawns)
             /\ SubSeq(all_processes, 1, Len(pre.all_processes))
                  = pre.all_processes
             /\ \A n \in 1..Len(Spawns) : RecordOfLaunch(Added[n], Spawns[n])
        /\ frame.op = "cleanup" =>
             all_processes = IF pc \in {"cl_loop", "cl_kill", "cl_terminate"}
                             THEN pre.all_processes ELSE <<>>
        /\ frame.op = "none" => all_processes = <<>>
        /\ StrictlyIncreasing(PidsOf(all_processes)))
  /\ [][/\ pc = "idle" => pre'.all_processes = all_processes
        /\ all_processes' # all_processes =>
             \/ /\ frame'.op \in {"start_cluster", "start_node"}
                /\ Len(all_processes') = Len(all_processes) + 1
                /\ SubSeq(all_processes', 1, Len(all_processes)) = all_processes
             \/ /\ frame.op = "cleanup"
                /\ all_processes' = <<>>]_vars

\* a second bootstrap call has added two records behind those of the first
C16_Witness ==
  /\ frame.op = "start_cluster"
  /\ Len(pre.all_processes) >= 1
  /\ Len(Spawns) >= 2
  /\ Len(all_processes) = Len(pre.all_processes) + Len(Spawns)
  /\ RoleOf(all_processes[Len(pre.all_processes) + 1]) = "scheduler"

\* ---------------------------------------------------------------------------
\* cleanup: progress
\* ---------------------------------------------------------------------------

InCleanup == frame.op = "cleanup" /\ pc # "idle"

\* The number of steps cleanup() can still take, at most: three per record
\* not yet reached by the loop of line 40, what is left of the record at
\* hand, one per driver handle not yet disconnected, and the two closing
\* steps of lines 57 and 62-64.
CleanupRank ==
  LET records == 3 * (Len(pre.all_processes) - k)
      handles == Len(drivers)
  IN CASE pc = "cl_kill"      -> records + handles + 5
       [] pc = "cl_terminate" -> records + handles + 4
       [] pc = "cl_loop"      -> records + handles + 3
       [] pc = "cl_drivers"   -> (handles - frame.i) + 1
       [] OTHER               -> 0

HasKill(events) == \E n \in 1..Len(events) : events[n] = Kill

\* C17: cleanup() terminates and does not raise.  While it runs a step is
\* always possible and every step lowers a non-negative bound on the steps
\* left; the loop index is only ever advanced by one, when the loop moves to
\* the next record, ends at the number of records, and the registry is not
\* changed while the loop runs; and a record found running is sent the kill
\* signal, also when an earlier record was left running.
C17_CleanupTerminates ==
  /\ [](/\ result.op = "cleanup" => result.status # "raised"
        /\ InCleanup =>
             /\ ENABLED (cl_loop \/ cl_kill \/ cl_terminate \/ cl_clear
                           \/ cl_drivers \/ cl_finish)
             /\ CleanupRank > 0
             /\ k <= Len(pre.all_processes)
        /\ (frame.op = "cleanup" /\ pc \in {"cl_drivers", "idle"}) =>
             k = Len(pre.all_processes)
        /\ (InCleanupLoop /\ trace[1] = Poll(None)) =>
             pc = "cl_kill" \/ HasKill(trace))
  /\ [][InCleanup =>
          /\ CleanupRank' < CleanupRank
          /\ frame'.op = "cleanup"
          /\ k' = IF pc = "cl_loop" /\ pc' # "cl_drivers" THEN k + 1 ELSE k
          /\ pc \in {"cl_kill", "cl_terminate"} =>
               all_processes' = all_processes]_vars

\* a record is sent the kill signal after an earlier record of the same
\* cleanup() outlived both signals
C17_Witness ==
  /\ InCleanup
  /\ left_running
  /\ alive
  /\ pc = "cl_terminate"
  /\ HasKill(trace)
  /\ k < Len(pre.all_processes)

\* ---------------------------------------------------------------------------
\* The port counters
\* ---------------------------------------------------------------------------

\* C18: the n-th port handed out for a role is the role's base plus n, with
\* bases 10000 (scheduler), 20000 (object store) and 40000 (worker), so the
\* first ports are 10001, 20001 and 40001; each counter holds the number of
\* ports handed out for its role; and a step that hands out a port of one
\* role raises that role's counter by one and leaves the other two alone.
C18_PortIsBasePlusCount ==
  /\ [](/\ \A n \in 1..Len(issued.scheduler) : issued.scheduler[n] = 10000 + n
        /\ \A n \in 1..Len(issued.objstore) : issued.objstore[n] = 20000 + n
        /\ \A n \in 1..Len(issued.worker) : issued.worker[n] = 40000 + n
        /\ scheduler_port_counter = Len(issued.scheduler)
        /\ objstore_port_counter = Len(issued.objstore)
        /\ worker_port_counter = Len(issued.worker))
  /\ [][/\ scheduler_port_counter' # scheduler_port_counter =>
             /\ scheduler_port_counter' = scheduler_port_counter + 1
             /\ objstore_port_counter' = objstore_port_counter
             /\ worker_port_counter' = worker_port_counter
        /\ objstore_port_counter' # objstore_port_counter =>
             /\ objstore_port_counter' = objstore_port_counter + 1
             /\ scheduler_port_counter' = scheduler_port_counter
             /\ worker_port_counter' = worker_port_counter
        /\ worker_port_counter' # worker_port_counter =>
             /\ worker_port_counter' = worker_port_counter + 1
             /\ scheduler_port_counter' = scheduler_port_counter
             /\ objstore_port_counter' = objstore_port_counter]_vars

\* every role has handed out its first port, and two roles a second one
C18_Witness ==
  /\ Len(issued.scheduler) >= 1
  /\ Len(issued.objstore) >= 2
  /\ Len(issued.worker) >= 2
  /\ issued.scheduler[1] = 10001
  /\ issued.objstore[1] = 20001
  /\ issued.worker[2] = 40002

\* ---------------------------------------------------------------------------
\* Driver connections
\* ---------------------------------------------------------------------------

\* C19 as stated: when cleanup() has returned no driver connection is left,
\* neither one made for a driver handle nor the implicit global one.
C19_CleanupDisconnectsAll ==
  ReturnedFrom("cleanup") => connected = {}

AddressesOf(recs) == {recs[n].address : n \in 1..Len(recs)}

\* C20: while every counter has handed out fewer than 10000 ports, no two
\* records of the process registry hold the same address, and no connected
\* driver has the address of a registered process as its worker address.
C20_AddressesDistinct ==
  (/\ scheduler_port_counter < 10000
   /\ objstore_port_counter < 10000
   /\ worker_port_counter < 10000)
  => /\ \A a, b \in 1..Len(all_processes) :
          a # b => all_processes[a].address # all_processes[b].address
     /\ \A c \in connected : c.worker_address \notin AddressesOf(all_processes)
     /\ \A c, d \in connected :
          c.worker_address = d.worker_address => c = d

\* a registry with a scheduler, an object store and a worker, and a driver
\* connected next to them
C20_Witness ==
  /\ Len(all_processes) >= 3
  /\ CountRole("python", all_processes) >= 1
  /\ Cardinality(connected) >= 1
  /\ pc = "idle"

====
